---- MODULE Spec2Model ----
(***************************************************************************)
(* The Elasticsearch query builder of the openFDA API                       *)
(* (api/faers/elasticsearch_query.js): the query-string validator, the      *)
(* sort builder with its process-wide field-sortability cache, and the      *)
(* query builder.                                                           *)
(*                                                                          *)
(* A JavaScript string is modelled as a sequence of one-character strings,  *)
(* so that trim, indexOf, split, endsWith and escape are computed on the    *)
(* characters as the code computes them.                                    *)
(***************************************************************************)
EXTENDS Integers, Sequences, FiniteSets, TLC

(* ---------------------------------------------------------------- bounds *)

\* Number of BuildSort requests that may be in progress at the same time.
NumProcs == 2

\* Number of getFieldMapping calls the mapping collaborator answers in a run.
MaxLookups == 2

\* Largest params.limit of a BuildQuery request.
MaxLimit == 10

\* Largest number of ';'-separated parts of a search_after cursor.
MaxPairs == 2

\* Lookups issued in a run of the concurrent sortability checks.
MaxRaceLookups == 3

\* Longest string handed to SupportedQueryString on its own.
MaxStrLen == 3

\* Largest number of fragments of a search handed to HandleDeprecatedClauses.
MaxFrags == 3

(* --------------------------------------------------------------- strings *)

\* The JavaScript value undefined (an absent property or argument).
Undefined == <<"undefined">>

\* JavaScript truthiness of a string-or-undefined value.
Truthy(s) == s # Undefined /\ s # <<>>

Min(S) == CHOOSE x \in S : \A y \in S : x <= y

Max(S) == CHOOSE x \in S : \A y \in S : x >= y

\* Characters String.prototype.trim removes (those used by the inputs below).
WhiteSpace == {" ", "\t", "\n"}

\* String.prototype.trim
Trim(s) ==
  LET keep == {i \in 1..Len(s) : s[i] \notin WhiteSpace}
  IN  IF keep = {} THEN <<>> ELSE SubSeq(s, Min(keep), Max(keep))

\* String.prototype.indexOf: 0-based position of the first occurrence, or -1.
IndexOf(s, t) ==
  LET hits == {i \in 0..(Len(s) - Len(t)) : SubSeq(s, i + 1, i + Len(t)) = t}
  IN  IF hits = {} THEN -1 ELSE Min(hits)

\* String.prototype.endsWith
EndsWith(s, f) ==
  Len(f) <= Len(s) /\ SubSeq(s, Len(s) - Len(f) + 1, Len(s)) = f

\* String.prototype.split on a one-character separator.
RECURSIVE Split(_, _)
Split(s, sep) ==
  LET at == {i \in 1..Len(s) : s[i] = sep}
  IN  IF at = {} THEN <<s>>
      ELSE <<SubSeq(s, 1, Min(at) - 1)>> \o Split(SubSeq(s, Min(at) + 1, Len(s)), sep)

\* The escape-html package: the five characters it replaces.
EscapeChar(c) ==
  CASE c = "\"" -> <<"&","q","u","o","t",";">>
    [] c = "&"  -> <<"&","a","m","p",";">>
    [] c = "'"  -> <<"&","#","3","9",";">>
    [] c = "<"  -> <<"&","l","t",";">>
    [] c = ">"  -> <<"&","g","t",";">>
    [] OTHER    -> <<c>>

RECURSIVE escape(_)
escape(s) == IF s = <<>> THEN <<>> ELSE EscapeChar(Head(s)) \o escape(Tail(s))

(* ------------------------------------------------------------- constants *)

ELASTICSEARCH_QUERY_ERROR == "ElasticsearchQueryError"

LowerCase ==
  {"a","b","c","d","e","f","g","h","i","j","k","l","m",
   "n","o","p","q","r","s","t","u","v","w","x","y","z"}

UpperCase ==
  {"A","B","C","D","E","F","G","H","I","J","K","L","M",
   "N","O","P","Q","R","S","T","U","V","W","X","Y","Z"}

Digits == {"0","1","2","3","4","5","6","7","8","9"}

\* The character class of SUPPORTED_QUERY_RE.
SUPPORTED_QUERY_RE ==
  LowerCase \cup UpperCase \cup Digits \cup
  {"&", "@", "%", "/", "'", ",", ".", "_", ":", "(", ")", "\"",
   "[", "]", "{", "}", "-", "+", ">", "<", "=", " "}

DATE_FIELDS ==
  <<
     <<"d","r","u","g","s","t","a","r","t","d","a","t","e">>,
     <<"d","r","u","g","e","n","d","d","a","t","e">>,
     <<"p","a","t","i","e","n","t",".","p","a","t","i","e","n","t","d","e","a","t","h",".","p","a","t","i","e","n","t","d","e","a","t","h","d","a","t","e">>,
     <<"p","a","t","i","e","n","t","d","e","a","t","h","d","a","t","e">>,
     <<"r","e","c","e","i","p","t","d","a","t","e">>,
     <<"r","e","c","e","i","v","e","d","a","t","e">>,
     <<"t","r","a","n","s","m","i","s","s","i","o","n","d","a","t","e">>,
     <<"r","e","p","o","r","t","_","d","a","t","e">>,
     <<"r","e","c","a","l","l","_","i","n","i","t","i","a","t","i","o","n","_","d","a","t","e">>,
     <<"c","e","n","t","e","r","_","c","l","a","s","s","i","f","i","c","a","t","i","o","n","_","d","a","t","e">>,
     <<"t","e","r","m","i","n","a","t","i","o","n","_","d","a","t","e">>,
     <<"e","f","f","e","c","t","i","v","e","_","t","i","m","e">>,
     <<"d","a","t","e","_","f","a","c","i","l","i","t","y","_","a","w","a","r","e">>,
     <<"d","a","t","e","_","m","a","n","u","f","a","c","t","u","r","e","r","_","r","e","c","e","i","v","e","d">>,
     <<"d","a","t","e","_","o","f","_","e","v","e","n","t">>,
     <<"d","a","t","e","_","r","e","c","e","i","v","e","d">>,
     <<"d","a","t","e","_","a","d","d","e","d">>,
     <<"d","a","t","e","_","c","h","a","n","g","e","d">>,
     <<"d","a","t","e","_","r","e","p","o","r","t">>,
     <<"d","a","t","e","_","r","e","p","o","r","t","_","t","o","_","f","d","a">>,
     <<"d","a","t","e","_","r","e","p","o","r","t","_","t","o","_","m","a","n","u","f","a","c","t","u","r","e","r">>,
     <<"d","a","t","e","_","r","e","t","u","r","n","e","d","_","t","o","_","m","a","n","u","f","a","c","t","u","r","e","r">>,
     <<"d","e","v","i","c","e","_","d","a","t","e","_","o","f","_","m","a","n","u","f","a","c","t","u","r","e">>,
     <<"b","a","s","e","l","i","n","e","_","d","a","t","e","_","c","e","a","s","e","d","_","m","a","r","k","e","t","i","n","g">>,
     <<"b","a","s","e","l","i","n","e","_","d","a","t","e","_","f","i","r","s","t","_","m","a","r","k","e","t","e","d">>,
     <<"e","x","p","i","r","a","t","i","o","n","_","d","a","t","e","_","o","f","_","d","e","v","i","c","e">>,
     <<"d","e","v","i","c","e","_","d","a","t","e","_","o","f","_","m","a","n","u","f","a","c","t","u","r","e","r">>,
     <<"p","r","o","d","u","c","t","s",".","c","r","e","a","t","e","d","_","d","a","t","e">>,
     <<"e","v","e","n","t","_","d","a","t","e","_","t","e","r","m","i","n","a","t","e","d">>,
     <<"e","v","e","n","t","_","d","a","t","e","_","i","n","i","t","i","a","t","e","d">>,
     <<"e","v","e","n","t","_","d","a","t","e","_","c","r","e","a","t","e","d">>,
     <<"e","v","e","n","t","_","d","a","t","e","_","p","o","s","t","e","d">>,
     <<"d","e","c","i","s","i","o","n","_","d","a","t","e">>,
     <<"f","e","d","_","r","e","g","_","n","o","t","i","c","e","_","d","a","t","e">>,
     <<"p","a","c","k","a","g","e","_","d","i","s","c","o","n","t","i","n","u","e","_","d","a","t","e">>,
     <<"p","u","b","l","i","s","h","_","d","a","t","e">>,
     <<"p","u","b","l","i","c","_","v","e","r","s","i","o","n","_","d","a","t","e">>,
     <<"c","o","m","m","e","r","c","i","a","l","_","d","i","s","t","r","i","b","u","t","i","o","n","_","e","n","d","_","d","a","t","e">>,
     <<"i","d","e","n","t","i","f","i","e","r","s",".","p","a","c","k","a","g","e","_","d","i","s","c","o","n","t","i","n","u","e","_","d","a","t","e">>,
     <<"p","a","c","k","a","g","e","_","d","i","s","c","o","n","t","i","n","u","e","_","d","a","t","e">>,
     <<"o","r","i","g","i","n","a","l","_","r","e","c","e","i","v","e","_","d","a","t","e">>,
     <<"o","n","s","e","t","_","d","a","t","e">>,
     <<"f","i","r","s","t","_","e","x","p","o","s","u","r","e","_","d","a","t","e">>,
     <<"l","a","s","t","_","e","x","p","o","s","u","r","e","_","d","a","t","e">>,
     <<"m","a","n","u","f","a","c","t","u","r","i","n","g","_","d","a","t","e">>,
     <<"l","o","t","_","e","x","p","i","r","a","t","i","o","n">>,
     <<"d","r","u","g",".","f","i","r","s","t","_","e","x","p","o","s","u","r","e","_","d","a","t","e">>,
     <<"d","r","u","g",".","l","a","s","t","_","e","x","p","o","s","u","r","e","_","d","a","t","e">>,
     <<"d","r","u","g",".","m","a","n","u","f","a","c","t","u","r","i","n","g","_","d","a","t","e">>,
     <<"d","r","u","g",".","l","o","t","_","e","x","p","i","r","a","t","i","o","n">>,
     <<"d","a","t","e","_","c","r","e","a","t","e","d">>,
     <<"d","a","t","e","_","s","t","a","r","t","e","d">>,
     <<"m","a","r","k","e","t","i","n","g","_","s","t","a","r","t","_","d","a","t","e">>,
     <<"m","a","r","k","e","t","i","n","g","_","e","n","d","_","d","a","t","e">>,
     <<"i","n","a","c","t","i","v","a","t","i","o","n","_","d","a","t","e">>,
     <<"r","e","a","c","t","i","v","a","t","i","o","n","_","d","a","t","e">>,
     <<"m","a","r","k","e","t","i","n","g","_","s","t","a","r","t","_","d","a","t","e">>,
     <<"m","a","r","k","e","t","i","n","g","_","e","n","d","_","d","a","t","e">>,
     <<"l","i","s","t","i","n","g","_","e","x","p","i","r","a","t","i","o","n","_","d","a","t","e">>,
     <<"s","u","b","m","i","s","s","i","o","n","s",".","s","u","b","m","i","s","s","i","o","n","_","s","t","a","t","u","s","_","d","a","t","e">>,
     <<"s","u","b","m","i","s","s","i","o","n","s",".","a","p","p","l","i","c","a","t","i","o","n","_","d","o","c","s",".","d","a","t","e">>,
     <<"d","a","t","e","_","p","e","r","f","o","r","m","e","d">>,
     <<"d","a","t","e","_","s","u","b","m","i","t","t","e","d">>
  >>

SORTABLE_FIELD_TYPES == {"keyword", "short", "integer", "byte", "date"}

\* exports.SupportedQueryString: ^[class]+$ tested against the whole string.
SupportedQueryString_Unanchored(query) ==
  \E i \in 1..Len(query) : query[i] \in SUPPORTED_QUERY_RE

SupportedQueryString(query) ==
  Len(query) > 0 /\ \A i \in 1..Len(query) : query[i] \in SUPPORTED_QUERY_RE

(* ------------------------------------------------------ the shared cache *)

\* node-cache, as the module uses it: a map from key to value without expiry.
EmptyCache == [k \in {} |-> FALSE]

has(c, key) == key \in DOMAIN c

\* A key that is not there reads as undefined, which is falsy.
get(c, key) == IF key \in DOMAIN c THEN c[key] ELSE FALSE

set(c, key, val) == [k \in DOMAIN c \cup {key} |-> IF k = key THEN val ELSE c[k]]

del(c, key) == [k \in DOMAIN c \ {key} |-> c[k]]

flushAll(c) == EmptyCache

(* ------------------------------------------- the mapping-lookup response *)

\* What client.indices.getFieldMapping and the jsonpath query over its
\* response amount to: an exception, no mapping at all, or a first mapping
\* with its type (a mapping without a type has type "").
MappingError == [kind |-> "error", type |-> ""]

NoMapping == [kind |-> "empty", type |-> ""]

Mapping(t) == [kind |-> "mapping", type |-> t]

ReportedTypes == SORTABLE_FIELD_TYPES \cup {"text", "long", ""}

Responses == {MappingError, NoMapping} \cup {Mapping(t) : t \in ReportedTypes}

(* ------------------------------------------------------- sortability check *)

\* `${index}.${field}`
cacheKey(field, idx) == idx \o <<".">> \o field

\* A variant whose catch block forgets only the entry of the key looked up.
isFieldTypeAcceptableForSorting_DelOwnKey(c, field, idx, resp) ==
  IF resp.kind = "error"
  THEN [cache |-> del(c, cacheKey(field, idx)), value |-> FALSE, thrown |-> FALSE]
  ELSE [cache  |-> c,
        value  |-> /\ resp.kind = "mapping"
                   /\ resp.type # ""
                   /\ resp.type \in SORTABLE_FIELD_TYPES,
        thrown |-> FALSE]

\* A variant whose catch block lets the lookup's exception escape.
isFieldTypeAcceptableForSorting_Rethrow(c, field, idx, resp) ==
  IF resp.kind = "error"
  THEN [cache |-> flushAll(c), value |-> FALSE, thrown |-> TRUE]
  ELSE [cache  |-> c,
        value  |-> /\ resp.kind = "mapping"
                   /\ resp.type # ""
                   /\ resp.type \in SORTABLE_FIELD_TYPES,
        thrown |-> FALSE]

\* isFieldTypeAcceptableForSorting once the lookup has answered: the value it
\* returns, the cache it leaves, and whether it lets the exception escape.
isFieldTypeAcceptableForSorting(c, field, idx, resp) ==
  IF resp.kind = "error"
  THEN [cache |-> flushAll(c), value |-> FALSE, thrown |-> FALSE]
  ELSE [cache  |-> c,
        value  |-> /\ resp.kind = "mapping"
                   /\ resp.type # ""
                   /\ resp.type \in SORTABLE_FIELD_TYPES,
        thrown |-> FALSE]

\* A variant without the guard on index and field.
isSortableFieldCheck_NoGuard(c, field, idx) ==
  IF has(c, cacheKey(field, idx)) THEN "hit" ELSE "miss"

\* isSortableField up to its await: "no" when index or field is absent,
\* "hit" when the key is cached, "miss" when the lookup has to be issued.
isSortableFieldCheck(c, field, idx) ==
  IF Truthy(idx) /\ Truthy(field)
  THEN IF has(c, cacheKey(field, idx)) THEN "hit" ELSE "miss"
  ELSE "no"

\* A variant that returns the value without caching it.
isSortableFieldStore_NoStore(c, field, idx, val) == c

\* isSortableField after its await: fieldMappingCache.set(cacheKey, value).
isSortableFieldStore(c, field, idx, val) == set(c, cacheKey(field, idx), val)

\* isSortableField's return: fieldMappingCache.get(cacheKey).
isSortableFieldReturn(c, field, idx) == get(c, cacheKey(field, idx))

(* ------------------------------------------------------------ BuildSort *)

\* What a call ends with: a returned string or a thrown {name, message}.
NoResult == [kind |-> "none", name |-> "", text |-> <<>>]

Return(s) == [kind |-> "return", name |-> "", text |-> s]

Throw(n, msg) == [kind |-> "throw", name |-> n, text |-> msg]

\* params.sort.split(':')[0]
SortField(sort) == Split(sort, ":")[1]

\* The first two conjuncts of BuildSort's rejection test: neither the literal
\* nor a date field vouches for the sort, so isSortableField is awaited.
NeedsSortabilityCheck(sort) ==
  /\ IndexOf(sort, <<"e","x","a","c","t">>) = -1
  /\ ~ \E i \in DOMAIN DATE_FIELDS : EndsWith(SortField(sort), DATE_FIELDS[i])

\* The value BuildSort leaves in params.sort.
BuildSortParams(sort) == IF Truthy(sort) THEN Trim(sort) ELSE sort

SortNotSupported(sort) ==
  Throw(ELASTICSEARCH_QUERY_ERROR, <<"S","o","r","t"," ","n","o","t"," ","s","u","p","p","o","r","t","e","d",":"," ">> \o escape(sort))

SortNotAllowed(sort) ==
  Throw(ELASTICSEARCH_QUERY_ERROR,
        <<"S","o","r","t","i","n","g"," ","a","l","l","o","w","e","d"," ","b","y"," ","n","o","n","-","a","n","a","l","y","z","e","d"," ","f","i","e","l","d","s"," ","o","n","l","y",":"," ">> \o escape(SortField(sort)))

\* A variant that returns the sort expression without the tiebreaker.
SortResult_NoTiebreak(sort) == Return(IF Truthy(sort) THEN sort ELSE <<"_","i","d">>)

\* return sort ? sort + ',_id' : '_id'
SortResult(sort) == Return(IF Truthy(sort) THEN sort \o <<",","_","i","d">> ELSE <<"_","i","d">>)

\* BuildSort after isSortableField has answered with sortable.
BuildSortFinish(sort, sortable) ==
  IF ~sortable THEN SortNotAllowed(sort) ELSE SortResult(sort)

\* A variant that tests sortability before it validates the characters.
BuildSortPath_CheckFirst(sort) ==
  IF ~Truthy(sort) THEN "default"
  ELSE IF NeedsSortabilityCheck(Trim(sort)) THEN "check"
  ELSE IF ~SupportedQueryString(Trim(sort)) THEN "invalid"
  ELSE "shortcut"

\* The path a BuildSort call takes before isSortableField is consulted.
BuildSortPath(sort) ==
  IF ~Truthy(sort) THEN "default"
  ELSE IF ~SupportedQueryString(Trim(sort)) THEN "invalid"
  ELSE IF ~NeedsSortabilityCheck(Trim(sort)) THEN "shortcut"
  ELSE "check"

(* ------------------------------------------------- deprecated clauses *)

StartsWith(s, t) == Len(t) <= Len(s) /\ SubSeq(s, 1, Len(t)) = t

\* The regular expression's class [\w.]
PathChars == LowerCase \cup UpperCase \cup Digits \cup {"_", "."}

\* Length of the longest prefix of s made of path characters.
RunLen(s) ==
  LET stops == {i \in 1..Len(s) : s[i] \notin PathChars}
  IN  IF stops = {} THEN Len(s) ELSE Min(stops) - 1

\* Length of what ("?[\w.]+"?) matches at the start of s, 0 when it does not
\* match: an optional quote, the longest run of path characters (at least
\* one), an optional quote.
CaptureLen(s) ==
  LET open  == IF s # <<>> /\ s[1] = "\"" THEN 1 ELSE 0
      run   == RunLen(SubSeq(s, open + 1, Len(s)))
      close == IF open + run < Len(s) /\ s[open + run + 1] = "\"" THEN 1 ELSE 0
  IN  IF run = 0 THEN 0 ELSE open + run + close

\* exports.HandleDeprecatedClauses:
\* search.replace(/_missing_:("?[\w.]+"?)/g, "(NOT (_exists_:$1))")
RECURSIVE HandleDeprecatedClauses(_)
HandleDeprecatedClauses(search) ==
  IF search = <<>> THEN <<>>
  ELSE LET rest == SubSeq(search, Len(<<"_","m","i","s","s","i","n","g","_",":">>) + 1, Len(search))
           n    == IF StartsWith(search, <<"_","m","i","s","s","i","n","g","_",":">>) THEN CaptureLen(rest) ELSE 0
       IN  IF n > 0
           THEN <<"(","N","O","T"," ","(","_","e","x","i","s","t","s","_",":">> \o SubSeq(rest, 1, n) \o <<")",")">>
                \o HandleDeprecatedClauses(SubSeq(rest, n + 1, Len(rest)))
           ELSE <<Head(search)>> \o HandleDeprecatedClauses(Tail(search))

(* ------------------------------------------------------------ the cursor *)

DigitChar == <<"0","1","2","3","4","5","6","7","8","9">>

DigitValue(c) == CHOOSE d \in 0..9 : DigitChar[d + 1] = c

\* String(n) for a non-negative integer.
RECURSIVE NumberToString(_)
NumberToString(n) ==
  IF n < 10 THEN <<DigitChar[n + 1]>>
  ELSE NumberToString(n \div 10) \o <<DigitChar[(n % 10) + 1]>>

\* The number a string of decimal digits denotes.
RECURSIVE DigitsValue(_)
DigitsValue(s) ==
  IF s = <<>> THEN 0
  ELSE 10 * DigitsValue(SubSeq(s, 1, Len(s) - 1)) + DigitValue(s[Len(s)])

\* parseInt of a number: the leading decimal digits of its string form.
parseInt(n) ==
  LET s     == NumberToString(n)
      stops == {i \in 1..Len(s) : s[i] \notin Digits}
  IN  DigitsValue(IF stops = {} THEN s ELSE SubSeq(s, 1, Min(stops) - 1))

\* A property name that JavaScript treats as an integer index: such keys are
\* enumerated first, in ascending order, whatever the insertion order.
IsIndexKey(k) ==
  /\ k # <<>>
  /\ \A i \in 1..Len(k) : k[i] \in Digits
  /\ (Len(k) > 1 => k[1] # "0")

\* One part of the cursor: the key before the first '=', the value after it
\* (a part without '=' is a key with the value '').
PartKey(part) ==
  LET eq == IndexOf(part, <<"=">>)
  IN  IF eq = -1 THEN part ELSE SubSeq(part, 1, eq)

PartValue(part) ==
  LET eq == IndexOf(part, <<"=">>)
  IN  IF eq = -1 THEN <<>> ELSE SubSeq(part, eq + 2, Len(part))

\* qs.parse(str, {delimiter: ';'}) for keys without brackets, as the list of
\* its properties in insertion order: a repeated key combines its values into
\* one array-valued property, a part with an empty key is dropped.
RECURSIVE Collect(_, _)
Collect(parts, props) ==
  IF parts = <<>> THEN props
  ELSE LET key  == PartKey(Head(parts))
           val  == PartValue(Head(parts))
           seen == {i \in 1..Len(props) : props[i].key = key}
       IN  IF key = <<>> THEN Collect(Tail(parts), props)
           ELSE IF seen = {}
           THEN Collect(Tail(parts), Append(props, [key |-> key, vals |-> <<val>>, scalar |-> TRUE]))
           ELSE Collect(Tail(parts),
                  [i \in 1..Len(props) |->
                     IF i \in seen
                     THEN [props[i] EXCEPT !.vals = Append(@, val), !.scalar = FALSE]
                     ELSE props[i]])

qsParse(str) == Collect(Split(str, ";"), <<>>)

\* Object.keys order of the properties: index keys ascending, then the rest
\* in insertion order.
RECURSIVE IndexKeysAscending(_, _)
IndexKeysAscending(props, S) ==
  IF S = {} THEN <<>>
  ELSE LET i == CHOOSE j \in S :
                  \A k \in S : DigitsValue(props[j].key) <= DigitsValue(props[k].key)
       IN  <<props[i]>> \o IndexKeysAscending(props, S \ {i})

KeyOrder(props) ==
  IndexKeysAscending(props, {i \in 1..Len(props) : IsIndexKey(props[i].key)})
  \o SelectSeq(props, LAMBDA pr : ~IsIndexKey(pr.key))

\* _.values(qs.parse(params.search_after, {delimiter: ';'}))
CursorValues(str) ==
  LET ordered == KeyOrder(qsParse(str))
  IN  [i \in 1..Len(ordered) |-> [vals |-> ordered[i].vals, scalar |-> ordered[i].scalar]]

(* ----------------------------------------------------------- BuildQuery *)

QueryParams(search, count, limit, cursor) ==
  [search |-> search, count |-> count, limit |-> limit, search_after |-> cursor]

NoQuery == [kind |-> "none", query |-> <<>>]

MatchAllQuery == [kind |-> "match_all", query |-> <<>>]

QueryStringQuery(qstr) == [kind |-> "query_string", query |-> qstr]

DateHistogramAggregation(field) ==
  [name |-> "histogram", kind |-> "date_histogram", field |-> field,
   interval |-> "day", order |-> <<"_key", "asc">>, format |-> "yyyyMMdd",
   min_doc_count |-> 1, size |-> 0]

TermsAggregation(field, size) ==
  [name |-> "count", kind |-> "terms", field |-> field,
   interval |-> "", order |-> <<>>, format |-> "", min_doc_count |-> 0,
   size |-> size]

\* A variant that recognises a date field by suffix, as BuildSort does.
CountAggregation_Suffix(count, limit) ==
  IF \E i \in DOMAIN DATE_FIELDS : EndsWith(count, DATE_FIELDS[i])
  THEN DateHistogramAggregation(count)
  ELSE TermsAggregation(count, parseInt(limit) + 1000)

\* The aggregation of a count request.
CountAggregation(count, limit) ==
  IF \E i \in DOMAIN DATE_FIELDS : DATE_FIELDS[i] = count
  THEN DateHistogramAggregation(count)
  ELSE TermsAggregation(count, parseInt(limit) + 1000)

\* The query clause the request object ends with: q.query is called in the
\* match-all branch and for a search, and nowhere else.
QueryClause(p) ==
  IF ~Truthy(p.search) /\ ~Truthy(p.count) THEN MatchAllQuery
  ELSE IF Truthy(p.search) THEN QueryStringQuery(HandleDeprecatedClauses(p.search))
  ELSE NoQuery

\* AddSearchAfter
AddSearchAfter(ejsBody, p) ==
  IF Truthy(p.search_after)
  THEN [ejsBody EXCEPT !.search_after = [present |-> TRUE, values |-> CursorValues(p.search_after)]]
  ELSE ejsBody

\* A variant that drops an unsupported search instead of rejecting it.
BuildQuery_SkipInvalidSearch(p) ==
  [kind |-> "return",
   doc  |-> AddSearchAfter(
              [query |-> IF Truthy(p.search) /\ ~SupportedQueryString(p.search)
                         THEN NoQuery ELSE QueryClause(p),
               aggs  |-> IF Truthy(p.count)
                         THEN {CountAggregation(p.count, p.limit)} ELSE {},
               search_after |-> [present |-> FALSE, values |-> <<>>]],
              p)]

\* exports.BuildQuery: the document it returns or the error it throws.
BuildQuery(p) ==
  IF Truthy(p.search) /\ ~SupportedQueryString(p.search)
  THEN [kind |-> "throw", name |-> ELASTICSEARCH_QUERY_ERROR,
        text |-> <<"S","e","a","r","c","h"," ","n","o","t"," ","s","u","p","p","o","r","t","e","d",":"," ">> \o escape(p.search)]
  ELSE [kind |-> "return",
        doc  |-> AddSearchAfter(
                   [query |-> QueryClause(p),
                    aggs  |-> IF Truthy(p.count)
                              THEN {CountAggregation(p.count, p.limit)} ELSE {},
                    search_after |-> [present |-> FALSE, values |-> <<>>]],
                   p)]

(* ---------------------------------------------------------------- inputs *)

Request(sort, idx) == [sort |-> sort, index |-> idx]

\* The (params.sort, index) pairs a request may carry.
SortRequests ==
  {Request(sort, <<"d","r","u","g">>) :
     sort \in {Undefined, <<"a","g","e">>, <<" ","w","t"," ">>, <<"a",".","e","x","a","c","t">>, <<"e","x","a","c","t","l","y">>,
               <<"o","n","s","e","t","_","d","a","t","e",":","d","e","s","c">>, <<"a",";","b">>, <<":","a","s","c">>}}
  \cup {Request(<<"a","g","e">>, Undefined)}

\* Two requests that reach the lookup, for fields of two indices.
RaceRequests == {Request(<<"a","g","e">>, <<"d","r","u","g">>), Request(<<"c">>, <<"a",".","b">>)}

\* Two index names of which one extends the other by a dot, as Elasticsearch
\* index names may, with a field under each.
AliasRequests == {Request(<<"c">>, <<"a",".","b">>), Request(<<"b",".","c">>, <<"a">>)}

\* What BuildSort computes from params.sort alone, tabulated per input.
SortFacts ==
  [sort \in {rq.sort : rq \in SortRequests \cup RaceRequests \cup AliasRequests} |->
     [now   |-> BuildSortParams(sort),
      field |-> SortField(BuildSortParams(sort)),
      path  |-> BuildSortPath(sort)]]

\* params.search values of a BuildQuery request.
SearchInputs == {Undefined, <<"a",":","b">>, <<"_","m","i","s","s","i","n","g","_",":","a">>, <<"a",";","b">>}

\* params.count values of a BuildQuery request.
CountInputs == {Undefined, <<"o","n","s","e","t","_","d","a","t","e">>, <<"b","r","a","n","d">>, <<"a",".","o","n","s","e","t","_","d","a","t","e">>}

CursorKeys == {<<"a">>, <<"b">>, <<"0">>, <<>>}

CursorVals == {<<"1">>, <<"2">>}

\* key=value parts joined with ';'
RECURSIVE JoinPairs(_)
JoinPairs(pairs) ==
  IF pairs = <<>> THEN <<>>
  ELSE Head(pairs)[1] \o <<"=">> \o Head(pairs)[2]
       \o (IF Len(pairs) > 1 THEN <<";">> ELSE <<>>) \o JoinPairs(Tail(pairs))

\* params.search_after values of a BuildQuery request.
CursorInputs ==
  {Undefined} \cup
  {JoinPairs(pairs) :
     pairs \in UNION {[1..n -> CursorKeys \X CursorVals] : n \in 1..MaxPairs}}

QueryRequests ==
  {QueryParams(s, c, l, a) :
     s \in SearchInputs, c \in CountInputs, l \in 1..MaxLimit, a \in CursorInputs}

(* ----------------------------------------------------------------- state *)

Procs == 1..NumProcs

VARIABLES
  fieldMappingCache,  \* the process-wide NodeCache: cache key -> boolean
  pc,                 \* per request: "idle", "lookup" (getFieldMapping pending),
                      \*   "resolved" (isFieldTypeAcceptableForSorting has
                      \*   returned, isSortableField not yet resumed), "done"
  given,              \* per request: params.sort as the caller passed it
  params,             \* per request: params.sort as the call has left it
  index,              \* per request: the index argument
  value,              \* per request: the boolean of the sortability check
  result,             \* per request: what BuildSort returned or threw
  lookups,            \* getFieldMapping calls issued so far
  obs,                \* per request, history: the path taken and what the
                      \*   lookup did
  entrySource,        \* history: per cached key, "type" when the entry was
                      \*   stored from an answered lookup, "failure" when it
                      \*   was stored from a failed one
  failedLast,         \* history: keys whose latest completed check had failed
  last,               \* history: per key, the result of the latest completed
                      \*   check, forgotten at every lookup failure
  qpc,                \* the BuildQuery caller: "idle" or "done"
  qgiven,             \* the params object as the caller passed it to BuildQuery
  qparams,            \* the params object as BuildQuery has left it
  qresult,            \* what BuildQuery returned or threw
  qfirst,             \* history: the first BuildQuery call and its outcome
  okPairs,            \* history: the (index, field) pairs for which a lookup
                      \*   has answered with an allow-listed type
  cleared,            \* history: keys that were cached at a flushAll and
                      \*   have not been stored since
  fpc,                \* a caller of an exported string function: "idle",
                      \*   "validated" or "rewritten"
  farg,               \* the string it passed
  fout                \* what the function returned

sortVars ==
  <<fieldMappingCache, pc, given, params, index, value, result, lookups,
    obs, entrySource, failedLast, last>>

queryVars == <<qpc, qgiven, qparams, qresult, qfirst>>

histVars == <<okPairs, cleared>>

pureVars == <<fpc, farg, fout>>

vars == <<sortVars, queryVars, histVars, pureVars>>

NoParams == QueryParams(Undefined, Undefined, 1, Undefined)

NoObs ==
  [via |-> "none", failed |-> FALSE, allowed |-> FALSE, retrying |-> FALSE,
   quiet |-> FALSE, preFail |-> {}]

NoCall ==
  [set |-> FALSE, params |-> NoParams, result |-> [kind |-> "none"],
   cache |-> EmptyCache, again |-> FALSE]

NoOutput == [ok |-> FALSE, text |-> <<>>]

Init ==
  /\ fieldMappingCache = EmptyCache
  /\ pc = [p \in Procs |-> "idle"]
  /\ given = [p \in Procs |-> Undefined]
  /\ params = [p \in Procs |-> Undefined]
  /\ index = [p \in Procs |-> Undefined]
  /\ value = [p \in Procs |-> FALSE]
  /\ result = [p \in Procs |-> NoResult]
  /\ lookups = 0
  /\ obs = [p \in Procs |-> NoObs]
  /\ entrySource = [k \in {} |-> "type"]
  /\ failedLast = {}
  /\ last = EmptyCache
  /\ qpc = "idle"
  /\ qgiven = NoParams
  /\ qparams = NoParams
  /\ qresult = [kind |-> "none"]
  /\ qfirst = NoCall
  /\ okPairs = {}
  /\ cleared = {}
  /\ fpc = "idle"
  /\ farg = <<>>
  /\ fout = NoOutput

InFlight(p) == pc[p] \in {"lookup", "resolved"}

Field(p) == SortFacts[given[p]].field

Key(p) == cacheKey(Field(p), index[p])

(* --------------------------------------------------------------- actions *)

\* BuildSort(params, index) from its entry to its first suspension: it ends
\* at once unless isSortableField misses the cache and issues the lookup.
BuildSortFrom(p, requests, budget) ==
  /\ pc[p] = "idle"
  /\ \E rq \in requests :
       LET sort  == rq.sort
           idx   == rq.index
           now   == SortFacts[sort].now
           field == SortFacts[sort].field
           path  == IF SortFacts[sort].path = "check"
                    THEN isSortableFieldCheck(fieldMappingCache, field, idx)
                    ELSE SortFacts[sort].path
           key   == cacheKey(field, idx)
           asked == path \in {"hit", "miss"}
           cached == path = "hit" /\ isSortableFieldReturn(fieldMappingCache, field, idx)
       IN  /\ path = "miss" => lookups < budget
           /\ given' = [given EXCEPT ![p] = sort]
           /\ params' = [params EXCEPT ![p] = now]
           /\ index' = [index EXCEPT ![p] = idx]
           /\ pc' = [pc EXCEPT ![p] = IF path = "miss" THEN "lookup" ELSE "done"]
           /\ value' = [value EXCEPT ![p] = cached]
           /\ result' = [result EXCEPT ![p] =
                CASE path = "default"  -> SortResult(sort)
                  [] path = "invalid"  -> SortNotSupported(now)
                  [] path = "shortcut" -> SortResult(now)
                  [] path = "no"       -> BuildSortFinish(now, FALSE)
                  [] path = "hit"      -> BuildSortFinish(now, cached)
                  [] path = "miss"     -> NoResult]
           /\ lookups' = IF path = "miss" THEN lookups + 1 ELSE lookups
           /\ obs' = [q \in Procs |->
                IF q = p
                THEN [NoObs EXCEPT !.via = path,
                                   !.retrying = asked /\ key \in failedLast,
                                   !.quiet = path = "miss" /\ \A r \in Procs \ {p} : ~InFlight(r)]
                ELSE IF path = "miss" THEN [obs[q] EXCEPT !.quiet = FALSE] ELSE obs[q]]
           /\ failedLast' = IF asked THEN failedLast \ {key} ELSE failedLast
           /\ last' = IF path = "hit" THEN set(last, key, cached) ELSE last
           /\ UNCHANGED <<fieldMappingCache, entrySource, queryVars, pureVars>>

BuildSortCall(p) == BuildSortFrom(p, SortRequests, MaxLookups) /\ UNCHANGED histVars

\* The lookup answers (or fails) and isFieldTypeAcceptableForSorting runs to
\* its return; the caller resumes in a later step.
LookupAnswer(p) ==
  /\ pc[p] = "lookup"
  /\ \E resp \in Responses :
       LET r == isFieldTypeAcceptableForSorting(fieldMappingCache, Field(p), index[p], resp)
       IN  /\ fieldMappingCache' = r.cache
           /\ value' = [value EXCEPT ![p] = r.value]
           /\ pc' = [pc EXCEPT ![p] = IF r.thrown THEN "done" ELSE "resolved"]
           /\ result' = [result EXCEPT ![p] =
                IF r.thrown THEN Throw("LookupError", <<>>) ELSE NoResult]
           /\ obs' = [obs EXCEPT ![p] =
                [@ EXCEPT !.failed = resp.kind = "error",
                          !.allowed = /\ resp.kind = "mapping"
                                      /\ resp.type \in {"keyword", "short", "integer", "byte", "date"},
                          !.preFail = IF resp.kind = "error"
                                      THEN DOMAIN fieldMappingCache ELSE {}]]
           /\ entrySource' = [k \in DOMAIN r.cache |-> entrySource[k]]
           /\ last' = IF resp.kind = "error" THEN EmptyCache ELSE last
           /\ UNCHANGED <<given, params, index, lookups, failedLast, queryVars, pureVars>>

LookupRespond(p) == LookupAnswer(p) /\ UNCHANGED histVars

\* isSortableField resumes: it stores the value, reads it back and returns;
\* BuildSort resumes with it and returns or throws.
Resume_SingleFlight(p) ==
  /\ pc[p] = "resolved"
  /\ \A q \in Procs \ {p} : ~(pc[q] = "lookup" /\ Key(q) = Key(p))
  /\ fieldMappingCache' = isSortableFieldStore(fieldMappingCache, Field(p), index[p], value[p])
  /\ LET sortable == isSortableFieldReturn(fieldMappingCache', Field(p), index[p])
     IN  /\ value' = [value EXCEPT ![p] = sortable]
         /\ result' = [result EXCEPT ![p] = BuildSortFinish(params[p], sortable)]
         /\ last' = set(last, Key(p), sortable)
  /\ pc' = [pc EXCEPT ![p] = "done"]
  /\ entrySource' = [k \in DOMAIN fieldMappingCache' |->
       IF k = Key(p) THEN (IF obs[p].failed THEN "failure" ELSE "type")
       ELSE entrySource[k]]
  /\ failedLast' = IF obs[p].failed THEN failedLast \cup {Key(p)} ELSE failedLast \ {Key(p)}
  /\ UNCHANGED <<given, params, index, lookups, obs, queryVars, pureVars>>

Resume(p) ==
  /\ pc[p] = "resolved"
  /\ fieldMappingCache' = isSortableFieldStore(fieldMappingCache, Field(p), index[p], value[p])
  /\ LET sortable == isSortableFieldReturn(fieldMappingCache', Field(p), index[p])
     IN  /\ value' = [value EXCEPT ![p] = sortable]
         /\ result' = [result EXCEPT ![p] = BuildSortFinish(params[p], sortable)]
         /\ last' = set(last, Key(p), sortable)
  /\ pc' = [pc EXCEPT ![p] = "done"]
  /\ entrySource' = [k \in DOMAIN fieldMappingCache' |->
       IF k = Key(p) THEN (IF obs[p].failed THEN "failure" ELSE "type")
       ELSE entrySource[k]]
  /\ failedLast' = IF obs[p].failed THEN failedLast \cup {Key(p)} ELSE failedLast \ {Key(p)}
  /\ UNCHANGED <<given, params, index, lookups, obs, queryVars, pureVars>>

StoreAndReturn(p) == Resume(p) /\ UNCHANGED histVars

\* The caller is done with the call; the request slot serves the next one.
Finish(p) ==
  /\ pc[p] = "done"
  /\ pc' = [pc EXCEPT ![p] = "idle"]
  /\ given' = [given EXCEPT ![p] = Undefined]
  /\ params' = [params EXCEPT ![p] = Undefined]
  /\ index' = [index EXCEPT ![p] = Undefined]
  /\ value' = [value EXCEPT ![p] = FALSE]
  /\ result' = [result EXCEPT ![p] = NoResult]
  /\ obs' = [obs EXCEPT ![p] = NoObs]
  /\ UNCHANGED <<fieldMappingCache, lookups, entrySource, failedLast, last,
                 queryVars, histVars, pureVars>>

Next ==
  \E p \in Procs :
    \/ BuildSortCall(p)
    \/ LookupRespond(p)
    \/ StoreAndReturn(p)
    \/ Finish(p)

Spec == Init /\ [][Next]_vars

(* ------------------------------------- concurrent sortability checks *)

\* BuildSort on a request that reaches isSortableField.
RaceCall(p) ==
  BuildSortFrom(p, RaceRequests, MaxRaceLookups) /\ UNCHANGED histVars

\* The lookup answers or fails; the histories record an allow-listed answer
\* for the pair asked about and the keys a failure found in the cache.
RaceRespond(p) ==
  /\ LookupAnswer(p)
  /\ okPairs' = IF obs'[p].allowed
                THEN okPairs \cup {<<index[p], Field(p)>>} ELSE okPairs
  /\ cleared' = IF obs'[p].failed
                THEN cleared \cup DOMAIN fieldMappingCache ELSE cleared

\* isSortableField resumes and stores under its key.
RaceStore(p) ==
  /\ Resume(p)
  /\ cleared' = cleared \ {Key(p)}
  /\ UNCHANGED okPairs

RaceNext ==
  \E p \in Procs :
    \/ RaceCall(p)
    \/ RaceRespond(p)
    \/ RaceStore(p)
    \/ Finish(p)

\* Concurrent requests whose sorts all need the sortability check.
RaceSpec == Init /\ [][RaceNext]_vars

\* BuildSort on a request for one of the two colliding index names.
AliasCall(p) ==
  BuildSortFrom(p, AliasRequests, MaxLookups) /\ UNCHANGED histVars

AliasNext ==
  \E p \in Procs :
    \/ AliasCall(p)
    \/ RaceRespond(p)
    \/ RaceStore(p)
    \/ Finish(p)

\* Concurrent requests on an index and on one whose name extends it.
AliasSpec == Init /\ [][AliasNext]_vars

TwinCall(p) ==
  BuildSortFrom(p, RaceRequests, MaxLookups) /\ UNCHANGED histVars

TwinNext ==
  \E p \in Procs :
    \/ TwinCall(p)
    \/ LookupRespond(p)
    \/ StoreAndReturn(p)
    \/ Finish(p)

\* Concurrent requests for the same keys. The continuation of an await
\* whose promise has settled runs: the event loop serves every settled
\* promise. Nothing makes a lookup answer.
TwinSpec ==
  Init /\ [][TwinNext]_vars /\ \A p \in Procs : WF_vars(StoreAndReturn(p))

(* ------------------------------------------------ BuildQuery on its own *)

\* BuildQuery(params): synchronous, it reads params and assigns none of its
\* properties.
BuildQueryFrom_AsksIndex(requests) ==
  /\ qpc = "idle"
  /\ \E p \in requests :
       /\ qgiven' = p
       /\ qparams' = p
       /\ qresult' = BuildQuery(p)
  /\ qpc' = "done"
  /\ lookups' = lookups + 1
  /\ UNCHANGED <<fieldMappingCache, pc, given, params, index, value, result,
                 obs, entrySource, failedLast, last, histVars, pureVars>>

BuildQueryFrom(requests) ==
  /\ qpc = "idle"
  /\ \E p \in requests :
       /\ qgiven' = p
       /\ qparams' = p
       /\ qresult' = BuildQuery(p)
  /\ qpc' = "done"
  /\ UNCHANGED <<sortVars, histVars, pureVars>>

BuildQueryCall == BuildQueryFrom(QueryRequests) /\ UNCHANGED qfirst

\* The caller is done with the document.
QueryFinish ==
  /\ qpc = "done"
  /\ qpc' = "idle"
  /\ qgiven' = NoParams
  /\ qparams' = NoParams
  /\ qresult' = [kind |-> "none"]
  /\ UNCHANGED <<sortVars, histVars, pureVars, qfirst>>

QueryNext == BuildQueryCall \/ QueryFinish

\* BuildQuery over all its inputs; it shares no state with the sort builder.
QuerySpec == Init /\ [][QueryNext]_vars

(* ----------------------------------- BuildQuery between BuildSort calls *)

\* A few BuildQuery requests: with and without a search and a count, two
\* of them with an unsupported search.
MixedQueries ==
  {QueryParams(s, c, 1, a) :
     s \in {Undefined, <<"a",":","b">>, <<"a",";","b">>},
     c \in {Undefined, <<"b","r","a","n","d">>},
     a \in {Undefined}}

\* BuildQuery, with the first call and any repetition of it recorded.
BuildQueryRecorded ==
  /\ BuildQueryFrom(MixedQueries)
  /\ qfirst' =
       IF ~qfirst.set
       THEN [set |-> TRUE, params |-> qgiven', result |-> qresult',
             cache |-> fieldMappingCache, again |-> FALSE]
       ELSE [qfirst EXCEPT !.again = @ \/ qgiven' = qfirst.params]

\* The handlers of one server process call BuildSort and BuildQuery in any
\* order; BuildSort suspends at its lookup and BuildQuery may run meanwhile.
MixedNext ==
  \/ BuildSortCall(1)
  \/ LookupRespond(1)
  \/ StoreAndReturn(1)
  \/ Finish(1)
  \/ BuildQueryRecorded
  \/ QueryFinish

MixedSpec == Init /\ [][MixedNext]_vars

(* ------------------------------------ the string functions on their own *)

\* Characters of the strings a caller validates: some of the class of
\* SUPPORTED_QUERY_RE and some outside it.
ValidatorChars == {"a", "Z", "7", "_", " ", "\"", "@", ";", "#", "\n"}

OtherChars == {";", "#", "\n", "\t", "*", "!", "?", "|", "~", "^", "$"}

\* Every string of up to MaxStrLen sample characters, and every
\* one-character string of the class and of the characters outside it.
ValidatorInputs ==
  UNION {[1..n -> ValidatorChars] : n \in 0..MaxStrLen}
  \cup {<<c>> : c \in SUPPORTED_QUERY_RE \cup OtherChars}

\* A caller (BuildSort, BuildQuery or another module) validates a string.
ValidateCall ==
  /\ fpc = "idle"
  /\ \E query \in ValidatorInputs :
       /\ farg' = query
       /\ fout' = [ok |-> SupportedQueryString(query), text |-> <<>>]
  /\ fpc' = "validated"
  /\ UNCHANGED <<sortVars, queryVars, histVars>>

\* The caller is done with the answer.
PureFinish ==
  /\ fpc # "idle"
  /\ fpc' = "idle"
  /\ farg' = <<>>
  /\ fout' = NoOutput
  /\ UNCHANGED <<sortVars, queryVars, histVars>>

ValidatorNext == ValidateCall \/ PureFinish

\* SupportedQueryString over its inputs.
ValidatorSpec == Init /\ [][ValidatorNext]_vars

\* Pieces of a search string; all their characters pass the validator.
SearchFragments ==
  {<<"_","m","i","s","s","i","n","g","_",":">>, <<"_","m","i","s","s","i","n","g","_">>, <<"a">>, <<".","b">>, <<"\"">>, <<" ">>, <<":">>}

RECURSIVE Concat(_)
Concat(parts) ==
  IF parts = <<>> THEN <<>> ELSE Head(parts) \o Concat(Tail(parts))

\* Every search made of one to MaxFrags fragments.
RewriterInputs ==
  {Concat(parts) :
     parts \in UNION {[1..n -> SearchFragments] : n \in 1..MaxFrags}}

\* A caller (BuildQuery or another module) rewrites a search.
RewriteCall ==
  /\ fpc = "idle"
  /\ \E search \in RewriterInputs :
       /\ farg' = search
       /\ fout' = [ok |-> TRUE, text |-> HandleDeprecatedClauses(search)]
  /\ fpc' = "rewritten"
  /\ UNCHANGED <<sortVars, queryVars, histVars>>

RewriterNext == RewriteCall \/ PureFinish

\* HandleDeprecatedClauses over its inputs.
RewriterSpec == Init /\ [][RewriterNext]_vars

(* ================================================================ claims *)

\* C1: every entry of the sortability cache was stored from a metadata lookup
\* for its key that completed without failure; a failed lookup leaves no
\* entry for the failing key once isSortableField has returned.
C1_EntriesFromAnsweredLookups ==
  \A k \in DOMAIN fieldMappingCache : entrySource[k] = "type"

\* C2: a sortability check that follows a failed check of the same key (one
\* that has returned false) issues a fresh metadata lookup, and is true when
\* that lookup reports an allow-listed type.
C2_RetryAfterFailure ==
  \A p \in Procs :
    (pc[p] # "idle" /\ obs[p].retrying) =>
      /\ obs[p].via = "miss"
      /\ (pc[p] = "done" /\ obs[p].allowed) => value[p]

\* C3: when a lookup fails with no other lookup in flight during the failing
\* call, every key that was cached before the failure is absent from the cache
\* when that call returns, and the call's sortability answer is false.
C3_FailureClearsCache ==
  [][\A p \in Procs :
       (pc[p] = "resolved" /\ pc'[p] = "done" /\ obs[p].failed /\ obs[p].quiet) =>
         /\ \A k \in obs[p].preFail : k \notin DOMAIN fieldMappingCache'
         /\ value'[p] = FALSE]_vars

\* C3 witness: a failing call that ran alone has returned false, and the keys
\* cached before its failure (a key other than its own among them) are gone.
C3_Witness ==
  \E p \in Procs :
    /\ pc[p] = "done" /\ obs[p].failed /\ obs[p].quiet
    /\ obs[p].preFail \ {Key(p)} # {}
    /\ obs[p].preFail \cap DOMAIN fieldMappingCache = {}
    /\ value[p] = FALSE

\* C4: a sortability check with index and field present that starts after a
\* completed check of the same key, with no lookup failure in between, issues
\* no metadata lookup: it is answered from the cache with the same boolean.
C4_SecondCallFromCache ==
  [][\A p \in Procs :
       (/\ pc[p] = "idle" /\ pc'[p] # "idle"
        /\ obs'[p].via \in {"hit", "miss"}
        /\ Key(p)' \in DOMAIN last) =>
         /\ pc'[p] = "done"
         /\ obs'[p].via = "hit"
         /\ lookups' = lookups
         /\ value'[p] = last[Key(p)']]_vars

\* C4 witness: a check was answered from the cache when one lookup in all had
\* been issued, the one of the first check of that key.
C4_Witness ==
  \E p \in Procs :
    /\ pc[p] = "done" /\ obs[p].via = "hit"
    /\ lookups = 1
    /\ value[p] = fieldMappingCache[Key(p)]

\* Whether the field name of a sort input ends in 'exact' or ends in a date
\* field, tabulated per input.
FieldVouched ==
  [sort \in DOMAIN SortFacts |->
     LET field == SortFacts[sort].field
     IN  \/ EndsWith(field, <<"e","x","a","c","t">>)
         \/ \E i \in DOMAIN DATE_FIELDS : EndsWith(field, DATE_FIELDS[i])]

\* C5: BuildSort accepts a sort without the sortability check only when its
\* field name ends in 'exact' or suffix-matches a date field; any other sort is
\* accepted only if isSortableField was consulted and returned true.
C5_UnvouchedSortIsChecked ==
  \A p \in Procs :
    (/\ pc[p] = "done" /\ result[p].kind = "return"
     /\ Truthy(given[p]) /\ ~FieldVouched[given[p]]) =>
      /\ obs[p].via \in {"hit", "miss"}
      /\ value[p]

\* C6: a BuildSort call whose metadata lookup failed ends by throwing the
\* ElasticsearchQueryError it throws for an unsortable field (never another
\* error, never a sort expression), its sortability answer being false.
C6_LookupFailureIsValidationError ==
  \A p \in Procs :
    (pc[p] = "done" /\ obs[p].failed) =>
      /\ value[p] = FALSE
      /\ result[p].kind = "throw"
      /\ result[p].name = "ElasticsearchQueryError"
      /\ result[p].text =
           <<"S","o","r","t","i","n","g"," ","a","l","l","o","w","e","d"," ","b","y"," ","n","o","n","-","a","n","a","l","y","z","e","d"," ","f","i","e","l","d","s"," ","o","n","l","y",":"," ">> \o escape(Field(p))

\* C6 witness: a call whose lookup failed has thrown the validation error.
C6_Witness ==
  \E p \in Procs :
    /\ pc[p] = "done" /\ obs[p].failed /\ obs[p].via = "miss"
    /\ result[p].kind = "throw"
    /\ result[p].name = "ElasticsearchQueryError"

\* C7: BuildSort and BuildQuery never write to their input: after the call,
\* returned or thrown, params holds what the caller passed.
C7_ParamsNotWritten ==
  /\ \A p \in Procs : pc[p] = "done" => params[p] = given[p]
  /\ qpc = "done" => qparams = qgiven

\* C8: every document BuildQuery returns has exactly one query clause
\* (match-all or text query) and at most one aggregation clause.
C8_OneQueryClause ==
  (qpc = "done" /\ qresult.kind = "return") =>
    /\ qresult.doc.query.kind \in {"match_all", "query_string"}
    /\ Cardinality(qresult.doc.aggs) <= 1

\* The values of the cursor's key=value parts, in the order of the parts.
CursorPairValues(str) ==
  LET parts == Split(str, ";")
  IN  [i \in 1..Len(parts) |-> PartValue(parts[i])]

\* C9: with params.search_after present the document's search_after is a
\* non-empty sequence of scalars, one per key=value pair of the cursor in the
\* order of the pairs; with it absent the document carries no cursor.
C9_CursorValuesInOrder ==
  (qpc = "done" /\ qresult.kind = "return") =>
    LET sa == qresult.doc.search_after
    IN  IF Truthy(qgiven.search_after)
        THEN /\ sa.present
             /\ sa.values # <<>>
             /\ \A i \in 1..Len(sa.values) : sa.values[i].scalar
             /\ [i \in 1..Len(sa.values) |-> sa.values[i].vals[1]]
                  = CursorPairValues(qgiven.search_after)
        ELSE ~sa.present

\* C10: for a count request BuildQuery produces a daily date histogram
\* (ascending by key, format yyyyMMdd, empty buckets excluded) exactly when the
\* count field is a member of the date-field set, and otherwise a terms
\* aggregation on the field of size limit + 1000.
C10_CountAggregation ==
  (qpc = "done" /\ qresult.kind = "return" /\ Truthy(qgiven.count)) =>
    LET isDate == \E i \in DOMAIN DATE_FIELDS : DATE_FIELDS[i] = qgiven.count
    IN  /\ Cardinality(qresult.doc.aggs) = 1
        /\ \A a \in qresult.doc.aggs :
             /\ a.field = qgiven.count
             /\ IF isDate
                THEN /\ a.kind = "date_histogram"
                     /\ a.interval = "day"
                     /\ a.order = <<"_key", "asc">>
                     /\ a.format = "yyyyMMdd"
                     /\ a.min_doc_count = 1
                ELSE /\ a.kind = "terms"
                     /\ a.size = qgiven.limit + 1000

\* C10 witness: count on a field outside the date-field set with limit 10 has
\* given a terms aggregation of size 1010.
C10_Witness ==
  /\ qpc = "done" /\ qresult.kind = "return"
  /\ qgiven.count = <<"b","r","a","n","d">> /\ qgiven.limit = 10
  /\ \E a \in qresult.doc.aggs : a.kind = "terms" /\ a.size = 1010

\* C11: BuildQuery never returns a partial document: a present search that
\* fails the validator makes it throw ElasticsearchQueryError whatever count,
\* limit and search_after are; a document it returns reflects all of search,
\* count and search_after.
C11_NoPartialDocument ==
  qpc = "done" =>
    IF Truthy(qgiven.search) /\ ~SupportedQueryString(qgiven.search)
    THEN /\ qresult.kind = "throw"
         /\ qresult.name = "ElasticsearchQueryError"
    ELSE /\ qresult.kind = "return"
         /\ Truthy(qgiven.search) =>
              /\ qresult.doc.query.kind = "query_string"
              /\ qresult.doc.query.query # <<>>
         /\ IF Truthy(qgiven.count)
            THEN \E a \in qresult.doc.aggs : a.field = qgiven.count
            ELSE qresult.doc.aggs = {}
         /\ qresult.doc.search_after.present = Truthy(qgiven.search_after)

\* C11 witness: an unsupported search was rejected although count and
\* search_after were given.
C11_Witness ==
  /\ qpc = "done" /\ qresult.kind = "throw"
  /\ qgiven.search = <<"a",";","b">>
  /\ Truthy(qgiven.count) /\ Truthy(qgiven.search_after)

\* Whether a sort input, once trimmed, fails the query-string validator,
\* tabulated per input.
SortRejected ==
  [sort \in DOMAIN SortFacts |->
     Truthy(sort) /\ ~SupportedQueryString(Trim(sort))]

\* C12: a sort expression that fails the query-string validator is rejected
\* with the 'Sort not supported' validation error in the step that receives
\* it: no metadata lookup is issued for it and the cache is left as it was.
C12_InvalidSortRejectedFirst ==
  [][\A p \in Procs :
       (pc[p] = "idle" /\ pc'[p] # "idle" /\ SortRejected[given'[p]]) =>
         /\ pc'[p] = "done"
         /\ result'[p].kind = "throw"
         /\ result'[p].name = "ElasticsearchQueryError"
         /\ result'[p].text = <<"S","o","r","t"," ","n","o","t"," ","s","u","p","p","o","r","t","e","d",":"," ">> \o escape(Trim(given'[p]))
         /\ lookups' = lookups
         /\ fieldMappingCache' = fieldMappingCache]_vars

\* C12 witness: the sort 'a;b' was rejected while the cache held an entry.
C12_Witness ==
  \E p \in Procs :
    /\ pc[p] = "done" /\ given[p] = <<"a",";","b">>
    /\ result[p].kind = "throw"
    /\ result[p].text = <<"S","o","r","t"," ","n","o","t"," ","s","u","p","p","o","r","t","e","d",":"," ","a",";","b">>
    /\ fieldMappingCache # EmptyCache

\* Whether a sort input passes the validator and has a field name that
\* suffix-matches a date field, tabulated per input.
DateSort ==
  [sort \in DOMAIN SortFacts |->
     /\ Truthy(sort)
     /\ SupportedQueryString(Trim(sort))
     /\ \E i \in DOMAIN DATE_FIELDS : EndsWith(Split(Trim(sort), ":")[1], DATE_FIELDS[i])]

\* C13: BuildSort without a sort returns '_id'; with a sort whose field name
\* suffix-matches a date field it returns the trimmed sort followed by ',_id';
\* neither issues a metadata lookup nor changes the cache. Every sort
\* expression BuildSort returns ends with the _id tiebreaker.
C13_DefaultAndDateSort ==
  [][\A p \in Procs :
       /\ (pc[p] = "idle" /\ pc'[p] # "idle" /\ ~Truthy(given'[p])) =>
            /\ pc'[p] = "done"
            /\ result'[p] = [kind |-> "return", name |-> "", text |-> <<"_","i","d">>]
            /\ lookups' = lookups
            /\ fieldMappingCache' = fieldMappingCache
       /\ (pc[p] = "idle" /\ pc'[p] # "idle" /\ DateSort[given'[p]]) =>
            /\ pc'[p] = "done"
            /\ result'[p] =
                 [kind |-> "return", name |-> "", text |-> Trim(given'[p]) \o <<",","_","i","d">>]
            /\ lookups' = lookups
            /\ fieldMappingCache' = fieldMappingCache
       /\ result'[p].kind = "return" =>
            \/ result'[p].text = <<"_","i","d">>
            \/ EndsWith(result'[p].text, <<",","_","i","d">>)]_vars

\* C13 witness: 'onset_date:desc' was answered with 'onset_date:desc,_id'
\* and no lookup has ever been issued.
C13_Witness ==
  \E p \in Procs :
    /\ pc[p] = "done" /\ given[p] = <<"o","n","s","e","t","_","d","a","t","e",":","d","e","s","c">>
    /\ result[p].kind = "return"
    /\ result[p].text = <<"o","n","s","e","t","_","d","a","t","e",":","d","e","s","c",",","_","i","d">>
    /\ lookups = 0

\* C15: isSortableField called with an absent index or an absent field
\* returns false at once: no metadata lookup is issued and the cache is left
\* exactly as it was.
C15_AbsentIndexOrField ==
  [][\A p \in Procs :
       (/\ pc[p] = "idle" /\ pc'[p] # "idle"
        /\ obs'[p].via \in {"no", "hit", "miss"}
        /\ (~Truthy(index'[p]) \/ ~Truthy(Split(params'[p], ":")[1]))) =>
         /\ pc'[p] = "done"
         /\ value'[p] = FALSE
         /\ lookups' = lookups
         /\ fieldMappingCache' = fieldMappingCache]_vars

\* C15 witness: with a non-empty cache, one check ran without an index and
\* another without a field; both answered false.
C15_Witness ==
  /\ fieldMappingCache # EmptyCache
  /\ \E p, q \in Procs :
       /\ pc[p] = "done" /\ obs[p].via = "no" /\ ~Truthy(index[p]) /\ ~value[p]
       /\ pc[q] = "done" /\ obs[q].via = "no" /\ given[q] = <<":","a","s","c">> /\ ~value[q]






\* The character set the validator is documented to accept.
DocumentedChars ==
  LowerCase \cup UpperCase \cup Digits \cup
  {".", "_", ":", "(", ")", "\"", "[", "]", "{", "}", "-", "+", ">", "<",
   "=", ",", "%", "&", "/", "'", " "}

OnlyFrom(s, chars) == \A i \in 1..Len(s) : s[i] \in chars

\* C14 as stated: SupportedQueryString returns true for every string made
\* only of characters of the documented set and false for every string
\* with a character outside it.
C14_DocumentedSetOnly ==
  fpc = "validated" => (fout.ok <=> OnlyFrom(farg, DocumentedChars))

\* C14, amended: SupportedQueryString returns true exactly for the non-empty
\* strings made only of characters of the documented set or '@'; it returns
\* false for the empty string and for every string with any other character.
C14_DocumentedSetAndAt ==
  fpc = "validated" =>
    (fout.ok <=> (farg # <<>> /\ OnlyFrom(farg, DocumentedChars \cup {"@"})))

C14_Witness ==
  /\ fpc = "validated"
  /\ farg = <<"a", "@", "7">>
  /\ fout.ok




\* Length of a field path in one of the two documented shapes at the start
\* of s, 0 when there is none: a run of path characters, or such a run
\* enclosed in a matching pair of double quotes.
FieldPathLen(s) ==
  IF s # <<>> /\ s[1] = "\""
  THEN LET run == RunLen(Tail(s))
       IN  IF run > 0 /\ run + 1 < Len(s) /\ s[run + 2] = "\"" THEN run + 2 ELSE 0
  ELSE RunLen(s)

\* The documented rewrite, written from its statement.
RECURSIVE ExistsRewrite(_)
ExistsRewrite(search) ==
  IF search = <<>> THEN <<>>
  ELSE LET rest == SubSeq(search, Len(<<"_","m","i","s","s","i","n","g","_",":">>) + 1, Len(search))
           n    == IF StartsWith(search, <<"_","m","i","s","s","i","n","g","_",":">>) THEN FieldPathLen(rest) ELSE 0
       IN  IF n > 0
           THEN <<"(","N","O","T"," ","(","_","e","x","i","s","t","s","_",":">> \o SubSeq(rest, 1, n) \o <<")",")">>
                \o ExistsRewrite(SubSeq(rest, n + 1, Len(rest)))
           ELSE <<Head(search)>> \o ExistsRewrite(Tail(search))

\* C16: HandleDeprecatedClauses replaces every '_missing_:' followed by a
\* field path P (unquoted, or in a matching pair of double quotes) with
\* '(NOT (_exists_:P))', leaves every other character unchanged and in
\* place, leaves a '_missing_' token without a field path unchanged, and
\* applied to its own output changes nothing.
C16_MissingBecomesNotExists ==
  fpc = "rewritten" =>
    /\ fout.text = ExistsRewrite(farg)
    /\ HandleDeprecatedClauses(fout.text) = fout.text




C18_TrueOnlyFromOwnLookup ==
  \A p \in Procs :
    (pc[p] = "done" /\ obs[p].via \in {"hit", "miss"} /\ value[p])
      => <<index[p], Field(p)>> \in okPairs


\* C19: a full-cache clear caused by one request's failed lookup is seen by
\* every later request: no key that was cached at the clear is in the cache
\* until it is stored again, and a call that begins its cache check on such
\* a key misses and issues its own lookup.
C19_ClearVisibleToLaterCalls ==
  [][/\ cleared' \cap DOMAIN fieldMappingCache' = {}
     /\ \A p \in Procs :
          (/\ pc[p] = "idle" /\ pc'[p] # "idle"
           /\ cacheKey(SortFacts[given'[p]].field, index'[p]) \in cleared)
            => /\ obs'[p].via = "miss"
               /\ pc'[p] = "lookup"
               /\ lookups' = lookups + 1]_vars

C19_Witness ==
  \E p \in Procs :
    /\ pc[p] = "lookup"
    /\ obs[p].quiet
    /\ Key(p) \in cleared
    /\ lookups = MaxRaceLookups

\* C20: the cache is no single-flight gate: a call whose key is not cached
\* issues its own lookup, also while another request's lookup for the same
\* key is in flight, and a call whose lookup has answered or failed returns
\* whatever the other requests do.
C20_NoSingleFlight ==
  /\ [][\A p \in Procs :
          (/\ pc[p] = "idle" /\ pc'[p] # "idle"
           /\ obs'[p].via \in {"hit", "miss"}
           /\ cacheKey(SortFacts[given'[p]].field, index'[p]) \notin DOMAIN fieldMappingCache)
            => pc'[p] = "lookup" /\ lookups' = lookups + 1]_vars
  /\ \A p \in Procs : (pc[p] = "resolved") ~> (pc[p] = "done" /\ result[p].kind # "none")

C20_Witness ==
  \E p, q \in Procs :
    /\ p # q
    /\ given[p] = given[q] /\ index[p] = index[q]
    /\ pc[p] = "done" /\ obs[p].via = "miss" /\ ~obs[p].quiet
    /\ pc[q] = "lookup" /\ ~obs[q].quiet









====
